---- MODULE Spec2Model ----
(***************************************************************************)
(* Model of the document text-extraction pipeline of src/app.py:           *)
(* the text normalizer, the readability assessor, the PDF fallback chain,  *)
(* the OCR extractor, the MIME dispatcher and the /extract handler.        *)
(*                                                                         *)
(* Characters are Unicode code points (integers), a Python str is a        *)
(* sequence of code points, a Python bytes object is a sequence of         *)
(* integers in 0..255.  Python's None is the value None below.             *)
(***************************************************************************)
EXTENDS Integers, Sequences, FiniteSets, TLC

VARIABLES pc, req, result, attempts, invoked, raised, ocr_text, arg, out

vars == <<pc, req, result, attempts, invoked, raised, ocr_text, arg, out>>

\* Python None: a value that is no str (no code point is negative).
None == <<-1>>

(***************************************************************************)
(* Bounds of the model.                                                    *)
(***************************************************************************)
\* longest string handed to the normalizer on its own
MaxCleanLen == 4
\* longest byte string handed to the plain-text decoder on its own
MaxDecodeLen == 3
\* longest free prefix of an uploaded file
MaxBody == 2
\* longest run of padding bytes appended to the free prefix
MaxPad == 10
\* most pages a PDF parser reports
MaxPages == 2

(***************************************************************************)
(* Generic string helpers (Python str / bytes primitives).                 *)
(***************************************************************************)
\* s[i:i+len(k)] == k
MatchAt(s, k, i) ==
    /\ i + Len(k) - 1 <= Len(s)
    /\ SubSeq(s, i, i + Len(k) - 1) = k

\* str.startswith
StartsWith(s, p) == MatchAt(s, p, 1)

\* str.isspace() for one character (also the class \s of the re module)
IsSpace(c) ==
    \/ c \in 9..13
    \/ c \in 28..32
    \/ c \in {133, 160, 5760, 8232, 8233, 8239, 8287, 12288}
    \/ c \in 8192..8202

\* str.strip()
Strip(s) ==
    LET keep == {i \in 1..Len(s) : ~IsSpace(s[i])}
    IN  IF keep = {} THEN <<>>
        ELSE LET lo == CHOOSE i \in keep : \A j \in keep : i <= j
                 hi == CHOOSE i \in keep : \A j \in keep : j <= i
             IN  SubSeq(s, lo, hi)

RECURSIVE ReplaceFrom(_, _, _, _)
ReplaceFrom(s, k, v, i) ==
    IF i > Len(s) THEN <<>>
    ELSE IF MatchAt(s, k, i) THEN v \o ReplaceFrom(s, k, v, i + Len(k))
    ELSE <<s[i]>> \o ReplaceFrom(s, k, v, i + 1)

\* str.replace(k, v) for a non-empty k: leftmost, non-overlapping
Replace(s, k, v) == ReplaceFrom(s, k, v, 1)

RECURSIVE Repeat(_, _)
Repeat(c, n) == IF n = 0 THEN <<>> ELSE <<c>> \o Repeat(c, n - 1)

\* all sequences over S of length at most n
RECURSIVE SeqsUpTo(_, _)
SeqsUpTo(S, n) ==
    IF n = 0 THEN {<<>>}
    ELSE LET shorter == SeqsUpTo(S, n - 1)
         IN  shorter \cup {Append(s, c) : s \in shorter, c \in S}

(***************************************************************************)
(* Text Normalizer: clean_extracted_text.                                  *)
(***************************************************************************)
\* Compatibility decomposition of one character, for the characters the
\* model's alphabets and the replacement table can produce.
CompatMap(c) ==
    CASE c = 160  -> <<32>>
      [] c = 188  -> <<49, 8260, 52>>
      [] c = 8230 -> <<46, 46, 46>>
      [] c = 8482 -> <<84, 77>>
      [] OTHER    -> <<c>>

RECURSIVE CompatAll(_)
CompatAll(s) == IF s = <<>> THEN <<>> ELSE CompatMap(Head(s)) \o CompatAll(Tail(s))

\* Canonical composition of a base character with a following combining mark
\* (0 when the pair has no precomposed form).
ComposePair(b, m) ==
    CASE b = 97  /\ m = 776 -> 228
      [] b = 65  /\ m = 776 -> 196
      [] OTHER -> 0

RECURSIVE ComposeFrom(_, _)
ComposeFrom(acc, s) ==
    IF s = <<>> THEN acc
    ELSE IF acc # <<>> /\ ComposePair(acc[Len(acc)], Head(s)) # 0
         THEN ComposeFrom(SubSeq(acc, 1, Len(acc) - 1)
                            \o <<ComposePair(acc[Len(acc)], Head(s))>>, Tail(s))
         ELSE ComposeFrom(Append(acc, Head(s)), Tail(s))

\* unicodedata.normalize('NFKC', text)
NFKC(s) == ComposeFrom(<<>>, CompatAll(s))

\* the class [\x00-\x08\x0B\x0C\x0E-\x1F\x7F-\x9F]
IsControl(c) == c \in 0..8 \/ c \in {11, 12} \/ c \in 14..31 \/ c \in 127..159

\* re.sub(r'[\x00-\x08\x0B\x0C\x0E-\x1F\x7F-\x9F]', '', text)
RemoveControl(s) == SelectSeq(s, LAMBDA c : ~IsControl(c))

\* The replacement table, in the iteration order of the dict literal.  The
\* key (226, 8364, 34) is written twice in the source; the later value wins
\* and the key keeps its first position.
replacements ==
    << << <<195, 164>>,        <<228>> >>,
       << <<195, 182>>,        <<246>> >>,
       << <<195, 188>>,        <<252>> >>,
       << <<195, 376>>,        <<223>> >>,
       << <<195, 8222>>,       <<196>> >>,
       << <<195, 8211>>,       <<214>> >>,
       << <<195, 339>>,        <<220>> >>,
       << <<226, 8218, 172>>,  <<8364>> >>,
       << <<226, 8364, 339>>,  <<34>> >>,
       << <<226, 8364>>,       <<34>> >>,
       << <<226, 8364, 8482>>, <<39>> >>,
       << <<226, 8364, 166>>,  <<46, 46, 46>> >>,
       << <<226, 8364, 34>>,   <<8212>> >> >>

RECURSIVE ApplyReplacements(_, _)
ApplyReplacements(s, n) ==
    IF n > Len(replacements) THEN s
    ELSE ApplyReplacements(Replace(s, replacements[n][1], replacements[n][2]), n + 1)

\* last index of the maximal run of \s characters that starts at i
SpaceRunEnd(s, i) ==
    CHOOSE e \in i..Len(s) :
        /\ \A j \in i..e : IsSpace(s[j])
        /\ e = Len(s) \/ ~IsSpace(s[e + 1])

RECURSIVE CollapseNewlinesFrom(_, _)
CollapseNewlinesFrom(s, i) ==
    IF i > Len(s) THEN <<>>
    ELSE LET e   == SpaceRunEnd(s, i)
             nls == {j \in (i + 1)..e : s[j] = 10}
         IN  IF s[i] = 10 /\ Cardinality(nls) >= 2
             THEN LET last == CHOOSE j \in nls : \A k \in nls : k <= j
                  IN  <<10, 10>> \o CollapseNewlinesFrom(s, last + 1)
             ELSE <<s[i]>> \o CollapseNewlinesFrom(s, i + 1)

\* re.sub(r'\n\s*\n\s*\n', '\n\n', text): the greedy match runs from a
\* newline to the last newline of the whitespace run it starts
CollapseNewlines(s) == CollapseNewlinesFrom(s, 1)

\* last index of the maximal run of characters of S that starts at i
RunEndIn(s, i, S) ==
    CHOOSE e \in (i - 1)..Len(s) :
        /\ \A j \in i..e : s[j] \in S
        /\ e = Len(s) \/ s[e + 1] \notin S

RECURSIVE CollapseSpacesFrom(_, _)
CollapseSpacesFrom(s, i) ==
    IF i > Len(s) THEN <<>>
    ELSE IF s[i] \in {32, 9}
         THEN <<32>> \o CollapseSpacesFrom(s, RunEndIn(s, i, {32, 9}) + 1)
         ELSE <<s[i]>> \o CollapseSpacesFrom(s, i + 1)

\* re.sub(r'[ \t]+', ' ', text)
CollapseSpaces(s) == CollapseSpacesFrom(s, 1)

RECURSIVE StripAroundNewlinesFrom(_, _)
StripAroundNewlinesFrom(s, i) ==
    IF i > Len(s) THEN <<>>
    ELSE LET e == RunEndIn(s, i, {32})
         IN  IF e + 1 <= Len(s) /\ s[e + 1] = 10
             THEN <<10>> \o StripAroundNewlinesFrom(s, RunEndIn(s, e + 2, {32}) + 1)
             ELSE <<s[i]>> \o StripAroundNewlinesFrom(s, i + 1)

\* re.sub(r' *\n *', '\n', text)
StripAroundNewlines(s) == StripAroundNewlinesFrom(s, 1)

clean_extracted_text(text) ==
    IF text = <<>> \/ text = None THEN <<>>
    ELSE Strip(StripAroundNewlines(CollapseSpaces(CollapseNewlines(
             ApplyReplacements(RemoveControl(NFKC(text)), 1)))))

(***************************************************************************)
(* Readability Assessor: is_text_readable.                                 *)
(***************************************************************************)
\* the class [a-zA-ZäöüßÄÖÜ0-9\s.,;:!?()[\]{}"\'-]
IsReadableChar(c) ==
    \/ c \in 97..122 \/ c \in 65..90 \/ c \in 48..57
    \/ c \in {228, 246, 252, 223, 196, 214, 220}
    \/ IsSpace(c)
    \/ c \in {46, 44, 59, 58, 33, 63, 40, 41, 91, 93, 123, 125, 34, 39, 45}

\* min_readable_ratio = 0.7, kept as the fraction 7/10
RatioNum == 7
RatioDen == 10
\* texts shorter than this after trimming are never readable
MinReadableLen == 10

is_text_readable(text) ==
    IF text = <<>> \/ text = None \/ Len(Strip(text)) < MinReadableLen THEN FALSE
    ELSE LET readable_chars == Cardinality({i \in 1..Len(text) : IsReadableChar(text[i])})
             total_chars    == Len(text)
         IN  readable_chars * RatioDen >= RatioNum * total_chars

(***************************************************************************)
(* Byte-to-character decoding: bytes.decode(encoding).  A decoder yields   *)
(* the decoded str, or None where Python raises UnicodeDecodeError.        *)
(***************************************************************************)
\* prepend to a decoding that may have failed
Cons(head, rest) == IF rest = None THEN None ELSE head \o rest

\* number of continuation bytes the lead byte b0 announces (-1: no lead byte)
Utf8Need(b0) ==
    CASE b0 \in 0..127   -> 0
      [] b0 \in 194..223 -> 1
      [] b0 \in 224..239 -> 2
      [] b0 \in 240..244 -> 3
      [] OTHER -> -1

\* the values allowed for the k-th continuation byte after lead byte b0
Utf8ContRange(b0, k) ==
    IF k > 1 THEN 128..191
    ELSE CASE b0 = 224 -> 160..191
           [] b0 = 237 -> 128..159
           [] b0 = 240 -> 144..191
           [] b0 = 244 -> 128..143
           [] OTHER    -> 128..191

\* how many of the announced continuation bytes after position i are valid
Utf8ValidConts(b, i) ==
    LET need == Utf8Need(b[i])
        ok(k) == i + k <= Len(b) /\ b[i + k] \in Utf8ContRange(b[i], k)
    IN  Cardinality({k \in 1..need : \A j \in 1..k : ok(j)})

Utf8CodePoint(b, i) ==
    CASE Utf8Need(b[i]) = 0 -> b[i]
      [] Utf8Need(b[i]) = 1 -> (b[i] - 192) * 64 + (b[i + 1] - 128)
      [] Utf8Need(b[i]) = 2 -> (b[i] - 224) * 4096 + (b[i + 1] - 128) * 64 + (b[i + 2] - 128)
      [] OTHER -> (b[i] - 240) * 262144 + (b[i + 1] - 128) * 4096
                    + (b[i + 2] - 128) * 64 + (b[i + 3] - 128)

\* decode('utf-8') from position i; with replace, errors='replace' puts
\* U+FFFD for every maximal ill-formed subsequence instead of raising
RECURSIVE Utf8From(_, _, _)
Utf8From(b, i, replace) ==
    IF i > Len(b) THEN <<>>
    ELSE LET need  == Utf8Need(b[i])
             valid == IF need < 0 THEN 0 ELSE Utf8ValidConts(b, i)
         IN  IF need >= 0 /\ valid = need
             THEN Cons(<<Utf8CodePoint(b, i)>>, Utf8From(b, i + need + 1, replace))
             ELSE IF replace
                  THEN Cons(<<65533>>, Utf8From(b, i + valid + 1, replace))
                  ELSE None

\* the byte order mark EF BB BF
BOM == <<239, 187, 191>>

\* bytes 0x80..0x9F under cp1252 (-1: the byte is unassigned and raises)
Cp1252High ==
    << 8364, -1, 8218, 402, 8222, 8230, 8224, 8225, 710, 8240, 352, 8249, 338, -1, 381, -1,
       -1, 8216, 8217, 8220, 8221, 8226, 8211, 8212, 732, 8482, 353, 8250, 339, -1, 382, 376 >>

Cp1252Char(c) == IF c \in 128..159 THEN Cp1252High[c - 127] ELSE c

\* bytes.decode with 'latin-1' taken for 'ascii': a byte above 127 raises
decode_latin1_as_ascii(b, encoding) ==
    CASE encoding = "utf-8"     -> Utf8From(b, 1, FALSE)
      [] encoding = "utf-8-sig" ->
             IF StartsWith(b, BOM) THEN Utf8From(b, 4, FALSE) ELSE Utf8From(b, 1, FALSE)
      [] encoding = "cp1252"    ->
             IF \E i \in 1..Len(b) : Cp1252Char(b[i]) = -1 THEN None
             ELSE [i \in 1..Len(b) |-> Cp1252Char(b[i])]
      [] encoding = "latin-1"   ->
             IF \E i \in 1..Len(b) : b[i] > 127 THEN None ELSE b
      [] OTHER -> b

\* file_bytes.decode(encoding)
decode(b, encoding) ==
    CASE encoding = "utf-8"     -> Utf8From(b, 1, FALSE)
      [] encoding = "utf-8-sig" ->
             IF StartsWith(b, BOM) THEN Utf8From(b, 4, FALSE) ELSE Utf8From(b, 1, FALSE)
      [] encoding = "cp1252"    ->
             IF \E i \in 1..Len(b) : Cp1252Char(b[i]) = -1 THEN None
             ELSE [i \in 1..Len(b) |-> Cp1252Char(b[i])]
      [] OTHER -> b   \* latin-1 and its alias iso-8859-1 map every byte to itself

\* file_bytes.decode('utf-8', errors='replace')
decode_replace(b) == Utf8From(b, 1, TRUE)

\* the list with Latin-1 tried first
encodings_latin_first == <<"latin-1", "utf-8", "utf-8-sig", "cp1252", "iso-8859-1">>

encodings_to_try == <<"utf-8", "utf-8-sig", "latin-1", "cp1252", "iso-8859-1">>

\* the decoding loop of the plain-text route: the first encoding that decodes
RECURSIVE TryEncodings(_, _)
TryEncodings(file_bytes, n) ==
    IF n > Len(encodings_to_try)
    THEN [text_content |-> None, encoding_used |-> "unknown"]
    ELSE LET t == decode(file_bytes, encodings_to_try[n])
         IN  IF t # None
             THEN [text_content |-> t, encoding_used |-> encodings_to_try[n]]
             ELSE TryEncodings(file_bytes, n + 1)

\* lines 319-336: the loop and the lossy fallback
DecodeText(file_bytes) ==
    LET tried == TryEncodings(file_bytes, 1)
    IN  IF tried.text_content = None
        THEN [text_content |-> decode_replace(file_bytes), encoding_used |-> "utf-8-replace"]
        ELSE tried

(***************************************************************************)
(* String literals of the source, as code point sequences.                 *)
(***************************************************************************)
\* 'Text Document: '
TextHeader == <<84, 101, 120, 116, 32, 68, 111, 99, 117, 109, 101, 110, 116, 58, 32>>
\* '\n\nContent:\n'
TextContentMark == <<10, 10, 67, 111, 110, 116, 101, 110, 116, 58, 10>>
\* 'Image Document: '
ImageHeader == <<73, 109, 97, 103, 101, 32, 68, 111, 99, 117, 109, 101, 110, 116, 58, 32>>
\* '\n\nOCR Extracted Content:\n'
OcrContentMark == <<10, 10, 79, 67, 82, 32, 69, 120, 116, 114, 97, 99, 116, 101, 100, 32, 67, 111, 110, 116, 101, 110, 116, 58, 10>>
\* '\n\nOCR failed to extract readable text'
OcrFailedText == <<10, 10, 79, 67, 82, 32, 102, 97, 105, 108, 101, 100, 32, 116, 111, 32, 101, 120, 116, 114, 97, 99, 116, 32, 114, 101, 97, 100, 97, 98, 108, 101, 32, 116, 101, 120, 116>>
\* '\n\nOCR not available - pytesseract not installed'
OcrUnavailableText == <<10, 10, 79, 67, 82, 32, 110, 111, 116, 32, 97, 118, 97, 105, 108, 97, 98, 108, 101, 32, 45, 32, 112, 121, 116, 101, 115, 115, 101, 114, 97, 99, 116, 32, 110, 111, 116, 32, 105, 110, 115, 116, 97, 108, 108, 101, 100>>
\* '\n\nOCR processing failed'
OcrErrorText == <<10, 10, 79, 67, 82, 32, 112, 114, 111, 99, 101, 115, 115, 105, 110, 103, 32, 102, 97, 105, 108, 101, 100>>
\* 'Unsupported file type: '
UnsupportedPrefix == <<85, 110, 115, 117, 112, 112, 111, 114, 116, 101, 100, 32, 102, 105, 108, 101, 32, 116, 121, 112, 101, 58, 32>>
\* 'All PDF extraction methods failed'
AllFailedMsg == <<65, 108, 108, 32, 80, 68, 70, 32, 101, 120, 116, 114, 97, 99, 116, 105, 111, 110, 32, 109, 101, 116, 104, 111, 100, 115, 32, 102, 97, 105, 108, 101, 100>>
\* 'OCR extracted insufficient text'
OcrInsufficientMsg == <<79, 67, 82, 32, 101, 120, 116, 114, 97, 99, 116, 101, 100, 32, 105, 110, 115, 117, 102, 102, 105, 99, 105, 101, 110, 116, 32, 116, 101, 120, 116>>
\* 'OCR library not available'
OcrUnavailableMsg == <<79, 67, 82, 32, 108, 105, 98, 114, 97, 114, 121, 32, 110, 111, 116, 32, 97, 118, 97, 105, 108, 97, 98, 108, 101>>
\* '400 Bad Request: Invalid or empty file data'
BadRequestMsg == <<52, 48, 48, 32, 66, 97, 100, 32, 82, 101, 113, 117, 101, 115, 116, 58, 32, 73, 110, 118, 97, 108, 105, 100, 32, 111, 114, 32, 101, 109, 112, 116, 121, 32, 102, 105, 108, 101, 32, 100, 97, 116, 97>>
\* "'int' object has no attribute 'startswith'"
AttributeErrorMsg == <<39, 105, 110, 116, 39, 32, 111, 98, 106, 101, 99, 116, 32, 104, 97, 115, 32, 110, 111, 32, 97, 116, 116, 114, 105, 98, 117, 116, 101, 32, 39, 115, 116, 97, 114, 116, 115, 119, 105, 116, 104, 39>>
\* 'text/'
TextPrefix == <<116, 101, 120, 116, 47>>
\* 'application/pdf'
PdfMime == <<97, 112, 112, 108, 105, 99, 97, 116, 105, 111, 110, 47, 112, 100, 102>>
\* 'image/'
ImagePrefix == <<105, 109, 97, 103, 101, 47>>

(***************************************************************************)
(* Inputs of a request and outcomes of the external libraries.             *)
(***************************************************************************)
\* a JSON mime_type that is not a string (a number): it has no startswith
NotAStr == <<-2>>

IsStr(v) == \A i \in 1..Len(v) : v[i] >= 0

\* 'text/plain', 'text/', 'Text/plain', 'application/pdf', 'application/pdfx', 'image/png', 'image', 'application/zip' and a non-string
MimeTypes ==
    { <<116, 101, 120, 116, 47, 112, 108, 97, 105, 110>>,
      <<116, 101, 120, 116, 47>>,
      <<84, 101, 120, 116, 47, 112, 108, 97, 105, 110>>,
      <<97, 112, 112, 108, 105, 99, 97, 116, 105, 111, 110, 47, 112, 100, 102>>,
      <<97, 112, 112, 108, 105, 99, 97, 116, 105, 111, 110, 47, 112, 100, 102, 120>>,
      <<105, 109, 97, 103, 101, 47, 112, 110, 103>>,
      <<105, 109, 97, 103, 101>>,
      <<97, 112, 112, 108, 105, 99, 97, 116, 105, 111, 110, 47, 122, 105, 112>>,
      NotAStr }

\* 'a.txt' and the empty filename
Filenames == { <<97, 46, 116, 120, 116>>, <<>> }

\* bytes of the free prefix of an upload: 'A', and the bytes C3 A4 (UTF-8
\* for U+00E4) and E4 (Latin-1 for U+00E4)
BodyBytes == {65, 195, 164, 228}

\* the padding bytes: a space
PadBytes == {32}

\* the uploads of the model: a free prefix followed by a run of one padding byte
FileInputs ==
    {body \o Repeat(p, n) : body \in SeqsUpTo(BodyBytes, MaxBody),
                            p \in PadBytes, n \in 0..MaxPad}

\* 'Hello,'
HalfPage == <<72, 101, 108, 108, 111, 44>>
\* '############'
Garbled == <<35, 35, 35, 35, 35, 35, 35, 35, 35, 35, 35, 35>>
\* '\xc3\xa4\xc3\xa4\xc3\xa4\xc3\xa4\xc3\xa4\xc3\xa4\xc3\xa4\xc3\xa4\xc3\xa4\xc3\xa4\xc3\xa4'
Mojibake == <<195, 164, 195, 164, 195, 164, 195, 164, 195, 164, 195, 164, 195, 164, 195, 164, 195, 164, 195, 164, 195, 164>>

\* what a PDF parser extracts from one page (or from the whole document)
PageTexts == {<<>>, HalfPage, Garbled, Mojibake}

\* exception messages of the PDF parsers
\* 'EOF marker not found'
EofMsg == <<69, 79, 70, 32, 109, 97, 114, 107, 101, 114, 32, 110, 111, 116, 32, 102, 111, 117, 110, 100>>
\* 'No /Root object! - Is this really a PDF?'
NoRootMsg == <<78, 111, 32, 47, 82, 111, 111, 116, 32, 111, 98, 106, 101, 99, 116, 33, 32, 45, 32, 73, 115, 32, 116, 104, 105, 115, 32, 114, 101, 97, 108, 108, 121, 32, 97, 32, 80, 68, 70, 63>>
\* 'trailer not found or does not point to document information directory'
TrailerMsg == <<116, 114, 97, 105, 108, 101, 114, 32, 110, 111, 116, 32, 102, 111, 117, 110, 100, 32, 111, 114, 32, 100, 111, 101, 115, 32, 110, 111, 116, 32, 112, 111, 105, 110, 116, 32, 116, 111, 32, 100, 111, 99, 117, 109, 101, 110, 116, 32, 105, 110, 102, 111, 114, 109, 97, 116, 105, 111, 110, 32, 100, 105, 114, 101, 99, 116, 111, 114, 121>>
\* 'cannot identify image file'
CannotIdentifyMsg == <<99, 97, 110, 110, 111, 116, 32, 105, 100, 101, 110, 116, 105, 102, 121, 32, 105, 109, 97, 103, 101, 32, 102, 105, 108, 101>>
\* "tesseract is not installed or it's not in your PATH"
TesseractMsg == <<116, 101, 115, 115, 101, 114, 97, 99, 116, 32, 105, 115, 32, 110, 111, 116, 32, 105, 110, 115, 116, 97, 108, 108, 101, 100, 32, 111, 114, 32, 105, 116, 39, 115, 32, 110, 111, 116, 32, 105, 110, 32, 121, 111, 117, 114, 32, 80, 65, 84, 72>>

\* what pytesseract.image_to_string returns
\* 'Hello'
OcrFive == <<72, 101, 108, 108, 111>>
\* 'Hello,'
OcrSix == <<72, 101, 108, 108, 111, 44>>
\* ' Hello, \n'
OcrPadded == <<32, 72, 101, 108, 108, 111, 44, 32, 10>>
\* '  \n'
OcrBlank == <<32, 32, 10>>
OcrTexts == {<<>>, OcrFive, OcrSix, OcrPadded, OcrBlank}

\* the title of a PDF's document information dictionary: 'T'
DocTitle == <<84>>

(***************************************************************************)
(* Result records.                                                         *)
(***************************************************************************)
\* the dict every extractor returns
Dict(success, text, text_length, pages, metadata, method, error) ==
    [success |-> success, text |-> text, text_length |-> text_length, pages |-> pages,
     metadata |-> metadata, method |-> method, error |-> error]

\* the empty dict {}
EmptyDict == <<>>

\* no result yet
NoResult == [method |-> "pending"]

\* a request that is not there
NoRequest == [file_bytes |-> <<>>, filename |-> <<>>, mime_type |-> <<>>]

(***************************************************************************)
(* PDF Extractor: extract_pdf_text_reliable.                               *)
(***************************************************************************)
\* the loop that joins the page texts: empty pages are skipped, every other
\* page is followed by a newline
RECURSIVE JoinPages(_)
JoinPages(pages) ==
    IF pages = <<>> THEN <<>>
    ELSE (IF Head(pages) # <<>> THEN Head(pages) \o <<10>> ELSE <<>>) \o JoinPages(Tail(pages))

\* a normalized text must have more than this many characters after trimming
MinPdfTextLen == 10

\* extracted_text and len(extracted_text.strip()) > 10 and is_readable
PassesCheck(extracted_text) ==
    /\ extracted_text # <<>>
    /\ Len(Strip(extracted_text)) > MinPdfTextLen
    /\ is_text_readable(extracted_text)

\* what PyPDF2 does with the document: the reader or a page raises, or the
\* pages yield their texts and reading the document information finds none,
\* finds a dictionary, or raises
PyPDF2Outcomes ==
    [kind : {"raise"}, msg : {EofMsg, NoRootMsg}, pages : {<<>>}, info : {"none"}]
    \cup
    [kind : {"parsed"}, msg : {TrailerMsg}, pages : SeqsUpTo(PageTexts, MaxPages),
     info : {"none", "titled", "raise"}]

\* the metadata dict built from pdf_reader.metadata: a missing key yields ''
PyPDF2Metadata(info) ==
    IF info = "none" THEN EmptyDict
    ELSE [title |-> DocTitle,
          author |-> <<>>, subject |-> <<>>, creator |-> <<>>, producer |-> <<>>,
          creation_date |-> <<>>, modification_date |-> <<>>]

\* what pdfplumber does: not installed, raises, or yields the page texts
PdfplumberOutcomes ==
    [kind : {"import_error", "raise"}, msg : {NoRootMsg}, pages : {<<>>}]
    \cup
    [kind : {"parsed"}, msg : {NoRootMsg}, pages : SeqsUpTo(PageTexts, MaxPages)]

\* what pdfminer does: not installed, raises, or yields the document text
PdfminerOutcomes ==
    [kind : {"import_error", "raise"}, msg : {EofMsg}, text : {<<>>}]
    \cup
    [kind : {"parsed"}, msg : {EofMsg}, text : PageTexts]

\* the normalized text of every page sequence a page-wise parser can yield
\* (lines 114-122 and 161-168), tabulated
NormalizedPages ==
    [pages \in SeqsUpTo(PageTexts, MaxPages) |-> clean_extracted_text(JoinPages(pages))]

\* the normalized text of every document text pdfminer can yield (line 193)
NormalizedText == [text \in PageTexts |-> clean_extracted_text(text)]

\* one entry of the history of attempts: the method, how the attempt ended
\* ("unavailable": the import failed, "threw": the library raised,
\* "returned": it ran to its check), and whether the text it had produced
\* by then satisfies the method's check
Attempt(method, outcome, text_ok) ==
    [method |-> method, outcome |-> outcome, text_ok |-> text_ok]

\* the final return of the chain, reporting the last exception it caught
AllFailedResultLeaky ==
    Dict(FALSE, <<>>, 0, 0, EmptyDict, "none",
         IF raised = <<>> THEN AllFailedMsg ELSE raised[Len(raised)])

\* the final return of the chain
AllFailedResult == Dict(FALSE, <<>>, 0, 0, EmptyDict, "none", AllFailedMsg)

\* Method 1 (lines 105-155)
TryPyPDF2 ==
    /\ pc = "pdf1"
    /\ \E o \in PyPDF2Outcomes :
         LET num_pages      == Len(o.pages)
             extracted_text == NormalizedPages[o.pages]
             text_ok        == o.kind = "parsed" /\ PassesCheck(extracted_text)
             threw          == o.kind = "raise" \/ o.info = "raise"
         IN  /\ attempts' = Append(attempts,
                    Attempt("PyPDF2", IF threw THEN "threw" ELSE "returned", text_ok))
             /\ raised' = IF threw THEN Append(raised, o.msg) ELSE raised
             /\ IF ~threw /\ text_ok
                THEN /\ result' = Dict(TRUE, extracted_text, Len(extracted_text), num_pages,
                                       PyPDF2Metadata(o.info), "PyPDF2-enhanced", None)
                     /\ pc' = "attach"
                ELSE /\ result' = result
                     /\ pc' = "pdf2"
    /\ UNCHANGED <<req, invoked, arg, out, ocr_text>>

\* Method 2 (lines 158-185)
TryPdfplumber ==
    /\ pc = "pdf2"
    /\ \E o \in PdfplumberOutcomes :
         LET extracted_text == NormalizedPages[o.pages]
             text_ok        == o.kind = "parsed" /\ PassesCheck(extracted_text)
         IN  /\ attempts' = Append(attempts,
                    Attempt("pdfplumber",
                            CASE o.kind = "import_error" -> "unavailable"
                              [] o.kind = "raise"        -> "threw"
                              [] OTHER                   -> "returned",
                            text_ok))
             /\ raised' = IF o.kind = "raise" THEN Append(raised, o.msg) ELSE raised
             /\ IF text_ok
                THEN /\ result' = Dict(TRUE, extracted_text, Len(extracted_text), Len(o.pages),
                                       EmptyDict, "pdfplumber-enhanced", None)
                     /\ pc' = "attach"
                ELSE /\ result' = result
                     /\ pc' = "pdf3"
    /\ UNCHANGED <<req, invoked, arg, out, ocr_text>>

\* Method 3 (lines 188-210)
TryPdfminer ==
    /\ pc = "pdf3"
    /\ \E o \in PdfminerOutcomes :
         LET extracted_text == NormalizedText[o.text]
             text_ok        == o.kind = "parsed" /\ PassesCheck(extracted_text)
         IN  /\ attempts' = Append(attempts,
                    Attempt("pdfminer",
                            CASE o.kind = "import_error" -> "unavailable"
                              [] o.kind = "raise"        -> "threw"
                              [] OTHER                   -> "returned",
                            text_ok))
             /\ raised' = IF o.kind = "raise" THEN Append(raised, o.msg) ELSE raised
             /\ IF text_ok
                THEN /\ result' = Dict(TRUE, extracted_text, Len(extracted_text), 1,
                                       EmptyDict, "pdfminer-enhanced", None)
                     /\ pc' = "attach"
                ELSE /\ result' = result
                     /\ pc' = "pdf_failed"
    /\ UNCHANGED <<req, invoked, arg, out, ocr_text>>

\* "If all methods fail" (lines 212-221)
PdfAllFailed ==
    /\ pc = "pdf_failed"
    /\ result' = AllFailedResult
    /\ pc' = "attach"
    /\ UNCHANGED <<req, attempts, invoked, raised, arg, out, ocr_text>>

extract_pdf_text_reliable == TryPyPDF2 \/ TryPdfplumber \/ TryPdfminer \/ PdfAllFailed

(***************************************************************************)
(* Image/OCR Extractor: extract_text_from_image.                           *)
(***************************************************************************)
\* OCR output must have more than this many characters after trimming
MinOcrLen == 5

\* extracted_text and len(extracted_text.strip()) > 5
OcrAccepts(extracted_text) ==
    extracted_text # <<>> /\ Len(Strip(extracted_text)) > MinOcrLen

\* what the OCR stack does: pytesseract is not installed, Image.open raises,
\* image_to_string raises, or image_to_string returns a text
OcrOutcomes ==
    [kind : {"import_error"}, msg : {CannotIdentifyMsg}, text : {<<>>}]
    \cup [kind : {"open_raise"}, msg : {CannotIdentifyMsg}, text : {<<>>}]
    \cup [kind : {"ocr_raise"}, msg : {TesseractMsg}, text : {<<>>}]
    \cup [kind : {"text"}, msg : {CannotIdentifyMsg}, text : OcrTexts]

\* extract_text_from_image without its except ImportError clause: the failed
\* import is caught by the outer handler
OcrResultNoImportClause(o, filename) ==
    CASE o.kind \in {"import_error", "open_raise", "ocr_raise"} ->
             Dict(FALSE, ImageHeader \o filename \o OcrErrorText, 0, 1,
                  [ocr |-> FALSE], "OCR-error", o.msg)
      [] OTHER ->
             IF OcrAccepts(o.text)
             THEN Dict(TRUE, ImageHeader \o filename \o OcrContentMark \o Strip(o.text),
                       Len(Strip(o.text)), 1,
                       [ocr |-> TRUE, image_format |-> "PNG"], "OCR-pytesseract", None)
             ELSE Dict(FALSE, ImageHeader \o filename \o OcrFailedText, 0, 1,
                       [ocr |-> TRUE], "OCR-failed", OcrInsufficientMsg)

\* the dict extract_text_from_image returns for an outcome of the OCR stack
OcrResult(o, filename) ==
    CASE o.kind = "import_error" ->
             Dict(FALSE, ImageHeader \o filename \o OcrUnavailableText, 0, 1,
                  [ocr |-> FALSE], "OCR-unavailable", OcrUnavailableMsg)
      [] o.kind \in {"open_raise", "ocr_raise"} ->
             Dict(FALSE, ImageHeader \o filename \o OcrErrorText, 0, 1,
                  [ocr |-> FALSE], "OCR-error", o.msg)
      [] OTHER ->
             IF OcrAccepts(o.text)
             THEN Dict(TRUE, ImageHeader \o filename \o OcrContentMark \o Strip(o.text),
                       Len(Strip(o.text)), 1,
                       [ocr |-> TRUE, image_format |-> "PNG"], "OCR-pytesseract", None)
             ELSE Dict(FALSE, ImageHeader \o filename \o OcrFailedText, 0, 1,
                       [ocr |-> TRUE], "OCR-failed", OcrInsufficientMsg)

\* lines 246-302
extract_text_from_image ==
    /\ pc = "ocr"
    /\ \E o \in OcrOutcomes :
         /\ result' = OcrResult(o, req.filename)
         /\ attempts' = Append(attempts,
                Attempt("pytesseract",
                        CASE o.kind = "import_error" -> "unavailable"
                          [] o.kind = "text"         -> "returned"
                          [] OTHER                   -> "threw",
                        o.kind = "text" /\ OcrAccepts(o.text)))
         /\ ocr_text' = IF o.kind = "text" THEN o.text ELSE None
         /\ raised' = IF o.kind \in {"open_raise", "ocr_raise"}
                      THEN Append(raised, o.msg) ELSE raised
    /\ pc' = "attach"
    /\ UNCHANGED <<req, invoked, arg, out>>

(***************************************************************************)
(* Extraction Dispatcher: extract_text_from_file.                          *)
(***************************************************************************)
\* the if/elif chain with the PDF test written as a prefix test
RouteOfPdfPrefix(mime_type) ==
    CASE ~IsStr(mime_type)                  -> "error"
      [] StartsWith(mime_type, TextPrefix)  -> "text"
      [] StartsWith(mime_type, PdfMime)     -> "pdf"
      [] StartsWith(mime_type, ImagePrefix) -> "image"
      [] OTHER                              -> "unsupported"

\* the branch the if/elif chain of lines 318-369 takes; a mime_type that is
\* no str raises AttributeError at the first test
RouteOf(mime_type) ==
    CASE ~IsStr(mime_type)                  -> "error"
      [] StartsWith(mime_type, TextPrefix)  -> "text"
      [] mime_type = PdfMime                -> "pdf"
      [] StartsWith(mime_type, ImagePrefix) -> "image"
      [] OTHER                              -> "unsupported"

\* the plain-text route (lines 319-349)
TextResult(file_bytes, filename) ==
    LET decoded      == DecodeText(file_bytes)
        text_content == clean_extracted_text(decoded.text_content)
    IN  Dict(TRUE, TextHeader \o filename \o TextContentMark \o text_content,
             Len(text_content), 1, [encoding |-> decoded.encoding_used],
             "text-enhanced", None)

\* the unsupported-type return (lines 361-369)
UnsupportedResult(mime_type) ==
    Dict(FALSE, UnsupportedPrefix \o mime_type, 0, 0, [mime_type |-> mime_type],
         "unsupported", UnsupportedPrefix \o mime_type)

\* the except branch of the dispatcher and of the handler (lines 373-381)
ErrorResult(msg) == Dict(FALSE, <<>>, 0, 0, EmptyDict, "error", msg)

extract_text_from_file ==
    /\ pc = "dispatch"
    /\ LET route == RouteOf(req.mime_type)
       IN  CASE route = "text" ->
                    /\ invoked' = invoked \cup {"text"}
                    /\ result' = TextResult(req.file_bytes, req.filename)
                    /\ pc' = "attach"
                    /\ raised' = raised
             [] route = "pdf" ->
                    /\ invoked' = invoked \cup {"pdf"}
                    /\ pc' = "pdf1"
                    /\ UNCHANGED <<result, raised>>
             [] route = "image" ->
                    /\ invoked' = invoked \cup {"image"}
                    /\ pc' = "ocr"
                    /\ UNCHANGED <<result, raised>>
             [] route = "unsupported" ->
                    /\ result' = UnsupportedResult(req.mime_type)
                    /\ pc' = "attach"
                    /\ UNCHANGED <<invoked, raised>>
             [] OTHER ->
                    /\ result' = ErrorResult(AttributeErrorMsg)
                    /\ raised' = Append(raised, AttributeErrorMsg)
                    /\ pc' = "attach"
                    /\ invoked' = invoked
    /\ UNCHANGED <<req, attempts, arg, out, ocr_text>>

(***************************************************************************)
(* The /extract handler: extract_document.                                 *)
(***************************************************************************)
\* uploads shorter than this are rejected
MinFileBytes == 10

\* the validation reduced to a test for a missing body
ValidFileNotNone(file_bytes) == file_bytes # None

\* the negation of: not file_bytes or len(file_bytes) < 10
ValidFile(file_bytes) == file_bytes # <<>> /\ Len(file_bytes) >= MinFileBytes

\* a request arrives with its bytes, filename and MIME type (lines 412-457)
Receive ==
    /\ pc = "idle"
    /\ \E file_bytes \in FileInputs, filename \in Filenames, mime_type \in MimeTypes :
         req' = [file_bytes |-> file_bytes, filename |-> filename, mime_type |-> mime_type]
    /\ result' = NoResult
    /\ attempts' = <<>>
    /\ invoked' = {}
    /\ raised' = <<>>
    /\ ocr_text' = None
    /\ pc' = "validate"
    /\ UNCHANGED <<arg, out>>

\* lines 459-464 and the BadRequest handler (lines 474-484)
Validate ==
    /\ pc = "validate"
    /\ IF ValidFile(req.file_bytes)
       THEN /\ pc' = "dispatch"
            /\ UNCHANGED <<result, raised>>
       ELSE /\ result' = ErrorResult(BadRequestMsg)
            /\ raised' = Append(raised, BadRequestMsg)
            /\ pc' = "done"
    /\ UNCHANGED <<req, attempts, invoked, arg, out, ocr_text>>

\* lines 466-472: filename and mime_type are attached and the result is sent
Attach ==
    /\ pc = "attach"
    /\ result' = [filename |-> req.filename, mime_type |-> req.mime_type] @@ result
    /\ pc' = "done"
    /\ UNCHANGED <<req, attempts, invoked, raised, arg, out, ocr_text>>

\* the response has been sent; the service waits for the next request
Finish ==
    /\ pc = "done"
    /\ pc' = "idle"
    /\ req' = NoRequest
    /\ result' = NoResult
    /\ attempts' = <<>>
    /\ invoked' = {}
    /\ raised' = <<>>
    /\ ocr_text' = None
    /\ UNCHANGED <<arg, out>>

extract_document == Receive \/ Validate \/ Attach \/ Finish

Init ==
    /\ pc = "idle"
    /\ req = NoRequest
    /\ result = NoResult
    /\ attempts = <<>>
    /\ invoked = {}
    /\ raised = <<>>
    /\ ocr_text = None
    /\ arg = <<>>
    /\ out = <<>>

Next ==
    \/ extract_document
    \/ extract_text_from_file
    \/ extract_pdf_text_reliable
    \/ extract_text_from_image

Spec == Init /\ [][Next]_vars

(***************************************************************************)
(* The normalizer and the plain-text decoder on their own.                 *)
(***************************************************************************)
\* NUL, newline, space, 'a', combining diaeresis, and the pair C3 A4 read as
\* Latin-1
CleanAlphabet == {0, 10, 32, 97, 776, 195, 164}

InitClean ==
    /\ pc = "clean"
    /\ arg \in SeqsUpTo(CleanAlphabet, MaxCleanLen)
    /\ out = None
    /\ req = NoRequest
    /\ result = NoResult
    /\ attempts = <<>>
    /\ invoked = {}
    /\ raised = <<>>
    /\ ocr_text = None

\* clean_extracted_text(arg)
Normalize ==
    /\ pc = "clean"
    /\ out' = clean_extracted_text(arg)
    /\ pc' = "cleaned"
    /\ UNCHANGED <<req, result, attempts, invoked, raised, ocr_text, arg>>

\* the normalizer applied to its own output
Renormalize ==
    /\ pc = "cleaned"
    /\ arg' = out
    /\ out' = clean_extracted_text(out)
    /\ pc' = "recleaned"
    /\ UNCHANGED <<req, result, attempts, invoked, raised, ocr_text>>

NextClean == Normalize \/ Renormalize

SpecClean == InitClean /\ [][NextClean]_vars

\* 'A', bytes that cp1252 leaves unassigned or maps elsewhere, the UTF-8 and
\* Latin-1 bytes of U+00E4, and the bytes of the byte order mark
DecodeBytes == {65, 128, 129, 164, 195, 228, 239, 187, 191}

InitDecode ==
    /\ pc = "decode"
    /\ arg \in SeqsUpTo(DecodeBytes, MaxDecodeLen)
    /\ out = NoResult
    /\ req = NoRequest
    /\ result = NoResult
    /\ attempts = <<>>
    /\ invoked = {}
    /\ raised = <<>>
    /\ ocr_text = None

\* the plain-text route applied to the bytes arg
DecodePlainText ==
    /\ pc = "decode"
    /\ \E filename \in Filenames : out' = TextResult(arg, filename)
    /\ pc' = "decoded"
    /\ UNCHANGED <<req, result, attempts, invoked, raised, ocr_text, arg>>

NextDecode == DecodePlainText

SpecDecode == InitDecode /\ [][NextDecode]_vars

(***************************************************************************)
(* Properties.                                                             *)
(***************************************************************************)
\* the response of the current request has been produced
Answered == pc = "done"

\* the response came out of the dispatcher (the upload passed validation)
Dispatched == pc = "done" /\ "filename" \in DOMAIN result

\* m begins with p, character by character
HasPrefix(m, p) == Len(m) >= Len(p) /\ \A i \in 1..Len(p) : m[i] = p[i]

\* the fallback order of the PDF chain and the tag each method returns
PdfOrder == <<"PyPDF2", "pdfplumber", "pdfminer">>

PdfTag(method) ==
    CASE method = "PyPDF2"     -> "PyPDF2-enhanced"
      [] method = "pdfplumber" -> "pdfplumber-enhanced"
      [] OTHER                 -> "pdfminer-enhanced"

\* no method of the chain ran to its check with a text that passed
NoMethodPassed ==
    \A i \in 1..Len(attempts) : ~(attempts[i].outcome = "returned" /\ attempts[i].text_ok)

\* C1: in every response, success = true implies text_length > 0 and an
\* empty (None) error.
SuccessImpliesText ==
    Answered => (result.success => result.text_length > 0 /\ result.error = None)

\* C2: the PDF chain attempts PyPDF2, pdfplumber, pdfminer in that order,
\* each at most once; a method is attempted exactly when every earlier one
\* threw, was unavailable or failed the check; the returned tag names the
\* first method whose normalized text passed the check, and no method is
\* attempted after a method whose normalized text passed.
FirstPassingTextWins ==
    (Dispatched /\ "pdf" \in invoked) =>
        /\ Len(attempts) \in 1..3
        /\ \A i \in 1..Len(attempts) : attempts[i].method = PdfOrder[i]
        /\ \A i \in 1..(Len(attempts) - 1) :
               \/ attempts[i].outcome \in {"threw", "unavailable"}
               \/ ~attempts[i].text_ok
        /\ Len(attempts) < 3 => attempts[Len(attempts)].text_ok
        /\ \A i \in 1..Len(attempts) :
               attempts[i].text_ok =>
                   /\ i = Len(attempts)
                   /\ result.method = PdfTag(attempts[i].method)
        /\ result.success => attempts[Len(attempts)].text_ok

\* C3: when no PDF method passes, the chain returns success=false, text '',
\* text_length 0, pages 0, method 'none' and the fixed message; the error is
\* never the message of an exception raised on the way.
AllFailedIsStable ==
    (Dispatched /\ "pdf" \in invoked /\ NoMethodPassed) =>
        /\ result.success = FALSE
        /\ result.text = <<>>
        /\ result.text_length = 0
        /\ result.pages = 0
        /\ result.method = "none"
        /\ result.error = AllFailedMsg
        /\ \A i \in 1..Len(raised) : result.error # raised[i]

\* witness of C3: all three methods were tried, at least one raised, and the
\* failure result came back
AllFailedWitness ==
    /\ Dispatched /\ "pdf" \in invoked /\ NoMethodPassed
    /\ Len(attempts) = 3
    /\ Len(raised) >= 2
    /\ result.method = "none"

\* C4: the route depends on the MIME type string alone: prefix 'text/' runs
\* only the plain-text decoder, exactly 'application/pdf' only the PDF
\* chain, prefix 'image/' only OCR, and anything else runs no extractor and
\* returns 'unsupported' with the MIME type in error and metadata.
RoutingIsMimeDriven ==
    (Dispatched /\ IsStr(req.mime_type)) =>
        LET m == req.mime_type
        IN  /\ Cardinality(invoked) <= 1
            /\ HasPrefix(m, TextPrefix) =>
                   /\ invoked = {"text"}
                   /\ attempts = <<>>
                   /\ result.method = "text-enhanced"
            /\ (~HasPrefix(m, TextPrefix) /\ m = PdfMime) =>
                   /\ invoked = {"pdf"}
                   /\ \A i \in 1..Len(attempts) : attempts[i].method # "pytesseract"
                   /\ result.method \in {"PyPDF2-enhanced", "pdfplumber-enhanced",
                                         "pdfminer-enhanced", "none"}
            /\ (~HasPrefix(m, TextPrefix) /\ m # PdfMime /\ HasPrefix(m, ImagePrefix)) =>
                   /\ invoked = {"image"}
                   /\ Len(attempts) = 1 /\ attempts[1].method = "pytesseract"
                   /\ result.method \in {"OCR-pytesseract", "OCR-failed",
                                         "OCR-unavailable", "OCR-error"}
            /\ (~HasPrefix(m, TextPrefix) /\ m # PdfMime /\ ~HasPrefix(m, ImagePrefix)) =>
                   /\ invoked = {}
                   /\ attempts = <<>>
                   /\ result.success = FALSE
                   /\ result.method = "unsupported"
                   /\ result.error = UnsupportedPrefix \o m
                   /\ result.metadata.mime_type = m

\* witness of C4: a MIME type that only begins with 'application/pdf' was
\* answered as unsupported, with no extractor run
UnsupportedWitness ==
    /\ Dispatched
    /\ HasPrefix(req.mime_type, PdfMime) /\ req.mime_type # PdfMime
    /\ result.method = "unsupported"
    /\ invoked = {}

\* C5: in every response, text_length is the number of characters of text.
TextLengthIsLen == Answered => result.text_length = Len(result.text)

\* C6: the OCR extractor always answers, with pages = 1; a failed import
\* gives 'OCR-unavailable', a returned text of at most 5 trimmed characters
\* gives 'OCR-failed', an exception gives 'OCR-error'; success with
\* 'OCR-pytesseract' comes exactly when OCR returned more than 5 trimmed
\* characters.
OcrOutcomesDistinct ==
    (Dispatched /\ "image" \in invoked) =>
        LET a    == attempts[1]
            long == ocr_text # None /\ Len(Strip(ocr_text)) > 5
        IN  /\ Len(attempts) = 1
            /\ result.pages = 1
            /\ a.outcome = "unavailable" =>
                   result.method = "OCR-unavailable" /\ ~result.success
            /\ a.outcome = "threw" => result.method = "OCR-error" /\ ~result.success
            /\ (a.outcome = "returned" /\ ~long) =>
                   result.method = "OCR-failed" /\ ~result.success
            /\ (a.outcome = "returned" /\ long) =>
                   result.method = "OCR-pytesseract" /\ result.success
            /\ result.success <=> (a.outcome = "returned" /\ long)
            /\ result.method \in {"OCR-unavailable", "OCR-failed", "OCR-error",
                                  "OCR-pytesseract"}

\* witness of C6: pytesseract could not be imported and the response says so
OcrUnavailableWitness ==
    /\ Dispatched /\ "image" \in invoked
    /\ attempts[1].outcome = "unavailable"
    /\ result.method = "OCR-unavailable"
    /\ result.pages = 1

\* C7: a PDF parser that is not installed is skipped and the chain goes on;
\* when the missing parser was the last option, the response differs, in
\* method or in error, from the response given when the methods ran and
\* were exhausted.
UnavailableIsDistinguished ==
    (Dispatched /\ "pdf" \in invoked) =>
        /\ \A i \in 1..Len(attempts) :
               (attempts[i].outcome = "unavailable" /\ i < 3) => Len(attempts) > i
        /\ (NoMethodPassed /\ attempts[Len(attempts)].outcome = "unavailable") =>
               ~(result.method = "none" /\ result.error = AllFailedMsg)

\* C8: the plain-text route answers success = true with pages = 1 for every
\* non-empty upload it is given, lossy or not; an empty upload is never
\* answered with success = true.
PlainTextSucceeds ==
    /\ (Dispatched /\ "text" \in invoked) =>
           /\ req.file_bytes # <<>>
           /\ result.success
           /\ result.pages = 1
    /\ (Answered /\ req.file_bytes = <<>>) => ~result.success

\* witness of C8: an upload that is no valid UTF-8 went through the
\* plain-text route and was answered with success
PlainTextWitness ==
    /\ Dispatched /\ "text" \in invoked
    /\ decode(req.file_bytes, "utf-8") = None
    /\ result.success /\ result.pages = 1

\* C9: metadata.encoding is the first encoding of utf-8, utf-8-sig, latin-1,
\* cp1252, iso-8859-1 that decodes the bytes: 'utf-8' for valid UTF-8,
\* 'latin-1' or a later tag otherwise, and the route never fails.
FirstEncodingRecorded ==
    pc = "decoded" =>
        LET order == <<"utf-8", "utf-8-sig", "latin-1", "cp1252", "iso-8859-1">>
            enc   == out.metadata.encoding
        IN  /\ out.method = "text-enhanced"
            /\ decode(arg, "utf-8") # None => enc = "utf-8"
            /\ decode(arg, "utf-8") = None => enc \in {"latin-1", "cp1252", "iso-8859-1"}
            /\ \E n \in 1..Len(order) :
                   /\ order[n] = enc
                   /\ decode(arg, enc) # None
                   /\ \A k \in 1..(n - 1) : decode(arg, order[k]) = None

\* witness of C9: bytes that are no valid UTF-8 were decoded as Latin-1
Latin1Witness ==
    /\ pc = "decoded"
    /\ arg # <<>>
    /\ decode(arg, "utf-8") = None
    /\ out.metadata.encoding = "latin-1"

\* C10: normalizing a normalized text changes nothing.
CleanIsIdempotent == pc = "recleaned" => out = arg

\* C11: in the plain-text route the lossy fallback is never taken: utf-8-sig
\* decodes only what utf-8 decodes and latin-1 decodes every byte string, so
\* metadata.encoding is 'utf-8' or 'latin-1' and never 'utf-8-sig',
\* 'cp1252', 'iso-8859-1', 'utf-8-replace' or 'unknown'.
LossyFallbackUnreachable ==
    pc = "decoded" =>
        /\ out.metadata.encoding \in {"utf-8", "latin-1"}
        /\ out.metadata.encoding \notin
               {"utf-8-sig", "cp1252", "iso-8859-1", "utf-8-replace", "unknown"}
        /\ decode(arg, "utf-8-sig") # None => decode(arg, "utf-8") # None
        /\ decode(arg, "latin-1") # None

\* witness of C11: bytes that utf-8 rejects and cp1252 has no character for
\* were decoded, and the recorded encoding is Latin-1
Cp1252UnassignedWitness ==
    /\ pc = "decoded"
    /\ decode(arg, "utf-8") = None
    /\ decode(arg, "utf-8-sig") = None
    /\ decode(arg, "cp1252") = None
    /\ out.metadata.encoding = "latin-1"

====
